---- MODULE Spec2Model ----
(***************************************************************************)
(* A model of wordtoppt: the Word-document segmenter (DocxParser), the     *)
(* layout resolver (TemplateManager), and the slide populator              *)
(* (PPTXCreator) driven by convert().                                      *)
(*                                                                         *)
(* Python values are modelled as follows.                                  *)
(*   - str: a TLA+ string; characters are read with SubSeq.                *)
(*   - None / a missing dict key: the empty tuple <<>>; a present value v  *)
(*     of an optional is the one-element tuple <<v>>.                      *)
(*   - list: a sequence; Python index k is TLA+ index k + 1.  Indices that *)
(*     the program stores (layout indices) keep their Python value.        *)
(*   - an exception: the name of its class; "" when none was raised.       *)
(*                                                                         *)
(* A file is <<>> when nothing is at its path, else <<content>>.  A         *)
(* template that opens holds slide layouts and no slide of its own.        *)
(***************************************************************************)
EXTENDS Integers, Sequences, FiniteSets, TLC

(***************************************************************************)
(* Bounds of the model.                                                    *)
(***************************************************************************)
\* Longest template (number of slide layouts) explored for analyze_template.
MaxLayouts == 3

(***************************************************************************)
(* State.                                                                  *)
(***************************************************************************)
\* TemplateManager
VARIABLES
    template_layouts,   \* presentation.slide_layouts of the template file
    slide_layouts,      \* analyze_template's local dict, then its result
    layout_idx,         \* number of layouts the scan loop has visited
    tm_pc               \* "open" | "scan" | "done" | "failed"

tm_vars == <<template_layouts, slide_layouts, layout_idx, tm_pc>>

\* DocxParser
VARIABLES
    paragraphs,     \* document.paragraphs
    content,        \* the dict extract_content builds, key by key
    doc_pc,         \* "open" | "title" | "headings" | "paragraphs"
                    \*   | "sections" | "done" | "failed"
    doc_error       \* the exception extract_content let escape, or ""

doc_vars == <<paragraphs, content, doc_pc, doc_error>>

\* convert() and PPTXCreator
VARIABLES
    pc,                     \* "validate" | "generate" | "create" | "slides"
                            \*   | "done" | "failed"
    presentation_structure, \* the generator's output, <<>> before it ran
    presentation,           \* the slides of self.presentation, in memory
    output_file,            \* <<>>: no file at the output path; else <<deck>>
    slide_pos,              \* entries of slides_data the loop has passed
    error                   \* the exception convert() caught, or ""

cr_vars ==
    <<pc, presentation_structure, presentation, output_file, slide_pos, error>>

\* The files and the environment convert() runs in
VARIABLES
    template_file,  \* the file at the template path
    same_path,      \* the output path names the file at the template path
    env             \* what convert() validates: the input document, the
                    \*   output directory, the API key

fs_vars == <<template_file, same_path, env>>

vars == <<tm_vars, doc_vars, cr_vars, fs_vars>>

(***************************************************************************)
(* Strings.                                                                *)
(***************************************************************************)
\* str.lower() on the letters that occur in the model's strings.
LowerMap ==
    [A |-> "a", B |-> "b", C |-> "c", D |-> "d", E |-> "e", F |-> "f",
     G |-> "g", H |-> "h", I |-> "i", J |-> "j", K |-> "k", L |-> "l",
     M |-> "m", N |-> "n", O |-> "o", P |-> "p", Q |-> "q", R |-> "r",
     S |-> "s", T |-> "t", U |-> "u", V |-> "v", W |-> "w", X |-> "x",
     Y |-> "y", Z |-> "z"]

RECURSIVE Lower(_)
Lower(s) ==
    IF Len(s) = 0 THEN ""
    ELSE LET c == SubSeq(s, 1, 1)
         IN  (IF c \in DOMAIN LowerMap THEN LowerMap[c] ELSE c)
                 \o Lower(SubSeq(s, 2, Len(s)))

\* Python's `sub in s` on strings.
Contains(sub, s) ==
    \E k \in 0..(Len(s) - Len(sub)) : SubSeq(s, k + 1, k + Len(sub)) = sub

\* str.startswith
StartsWith(s, prefix) ==
    Len(prefix) <= Len(s) /\ SubSeq(s, 1, Len(prefix)) = prefix

(***************************************************************************)
(* TemplateManager                                                         *)
(***************************************************************************)
LayoutTypes == {"title", "section", "content", "picture", "blank"}

SLIDE_LAYOUT_TYPES ==
    [title   |-> <<"Title Slide", "Title">>,
     section |-> <<"Section Header", "Section">>,
     content |-> <<"Title and Content", "Content", "Two Content", "Comparison">>,
     picture |-> <<"Picture with Caption", "Title and Picture">>,
     blank   |-> <<"Blank">>]

\* A placeholder of a layout: placeholder_format.idx, placeholder_format.type, name.
Ph(idx, type, name) == [idx |-> idx, type |-> type, name |-> name]

\* Slide layouts a template may hold (name and placeholders).
L_TitleSlide ==
    [name |-> "Title Slide",
     placeholders |-> <<Ph(0, 1, "Title 1"), Ph(1, 2, "Subtitle 2")>>]
L_TitleAndContent ==
    [name |-> "Title and Content",
     placeholders |-> <<Ph(0, 1, "Title 1"), Ph(1, 7, "Content Placeholder 2")>>]
L_SectionHeader ==
    [name |-> "Section Header",
     placeholders |-> <<Ph(0, 1, "Title 1"), Ph(1, 2, "Text Placeholder 2")>>]
L_TwoContent ==
    [name |-> "two content",
     placeholders |-> <<Ph(0, 1, "Title 1"), Ph(1, 7, "Content Placeholder 2"),
                        Ph(2, 7, "Content Placeholder 3")>>]
L_Blank ==
    [name |-> "Blank", placeholders |-> <<>>]
L_Picture ==
    [name |-> "Picture with Caption",
     placeholders |-> <<Ph(0, 1, "Title 1"), Ph(1, 18, "Picture Placeholder 2"),
                        Ph(2, 2, "Text Placeholder 3")>>]
L_Custom ==
    [name |-> "Custom Layout",
     placeholders |-> <<Ph(10, 15, "Footer Placeholder 1")>>]
L_TitleOnly ==
    [name |-> "TITLE ONLY", placeholders |-> <<Ph(0, 1, "Title 1")>>]

Layouts ==
    {L_TitleSlide, L_TitleAndContent, L_SectionHeader, L_TwoContent,
     L_Blank, L_Picture, L_Custom, L_TitleOnly}

SeqsUpTo(S, n) == UNION {[1..k -> S] : k \in 0..n}

\* Templates explored for analyze_template alone.
ResolveTemplates == SeqsUpTo(Layouts, MaxLayouts)

\* _analyze_placeholders
AnalyzePlaceholders(layout) ==
    [k \in 1..Len(layout.placeholders) |->
        [index |-> layout.placeholders[k].idx,
         type  |-> layout.placeholders[k].type,
         name  |-> layout.placeholders[k].name]]

\* The dict stored for a layout type.
Binding(idx, layout) ==
    [index |-> idx, name |-> layout.name,
     placeholders |-> AnalyzePlaceholders(layout)]

\* any(name.lower() in layout_name.lower() for name in possible_names)
MatchesType(layout_type, layout_name) ==
    \E k \in 1..Len(SLIDE_LAYOUT_TYPES[layout_type]) :
        Contains(Lower(SLIDE_LAYOUT_TYPES[layout_type][k]), Lower(layout_name))

\* Faulty variant of ScanLayout: the `is None` test dropped, so the last match wins.
ScanLayoutLastWins(sl, idx, layout) ==
    [t \in LayoutTypes |->
        IF MatchesType(t, layout.name)
        THEN <<Binding(idx, layout)>>
        ELSE sl[t]]

\* Body of the scan loop for one layout (index idx, 0-based).
ScanLayout(sl, idx, layout) ==
    [t \in LayoutTypes |->
        IF MatchesType(t, layout.name) /\ sl[t] = <<>>
        THEN <<Binding(idx, layout)>>
        ELSE sl[t]]

TitleFallback(sl, layouts) ==
    IF sl["title"] = <<>> /\ Len(layouts) > 0
    THEN [sl EXCEPT !["title"] = <<Binding(0, layouts[1])>>]
    ELSE sl

ContentFallback(sl, layouts) ==
    IF sl["content"] = <<>> /\ Len(layouts) > 1
    THEN LET idx == IF Len(layouts) > 1 THEN 1 ELSE 0
         IN  [sl EXCEPT !["content"] = <<Binding(idx, layouts[idx + 1])>>]
    ELSE sl

SectionFallback(sl) ==
    IF sl["section"] = <<>> /\ sl["title"] # <<>>
    THEN [sl EXCEPT !["section"] = sl["title"]]
    ELSE sl

\* The three fallbacks in the order analyze_template applies them.
Fallbacks(sl, layouts) ==
    SectionFallback(ContentFallback(TitleFallback(sl, layouts), layouts))

EmptyLayoutMap == [t \in LayoutTypes |-> <<>>]

TM_Init ==
    /\ slide_layouts = EmptyLayoutMap
    /\ layout_idx = 0
    /\ tm_pc = "scan"

\* pptx.Presentation(self.template_path): a file that is no presentation
\* makes analyze_template raise RuntimeError, which convert() catches.
TM_Open ==
    /\ pc = "create"
    /\ tm_pc = "open"
    /\ IF template_file[1].is_pptx
       THEN tm_pc' = "scan" /\ pc' = pc /\ error' = error
       ELSE tm_pc' = "failed" /\ pc' = "failed" /\ error' = "RuntimeError"
    /\ UNCHANGED <<template_layouts, slide_layouts, layout_idx, doc_vars,
                   presentation_structure, presentation, output_file,
                   slide_pos, fs_vars>>

\* One iteration of `for layout_idx, layout in enumerate(slide_layouts)`.
TM_Scan ==
    /\ pc = "create"
    /\ tm_pc = "scan"
    /\ layout_idx < Len(template_layouts)
    /\ slide_layouts' =
           ScanLayout(slide_layouts, layout_idx, template_layouts[layout_idx + 1])
    /\ layout_idx' = layout_idx + 1
    /\ UNCHANGED <<template_layouts, tm_pc, doc_vars, cr_vars, fs_vars>>

\* Loop exit, the fallbacks, and the return.
TM_Fallbacks ==
    /\ pc = "create"
    /\ tm_pc = "scan"
    /\ layout_idx = Len(template_layouts)
    /\ slide_layouts' = Fallbacks(slide_layouts, template_layouts)
    /\ tm_pc' = "done"
    /\ UNCHANGED <<template_layouts, layout_idx, doc_vars, cr_vars, fs_vars>>

(***************************************************************************)
(* DocxParser                                                              *)
(***************************************************************************)
\* Characters str.strip() and str.split() treat as whitespace.
IsSpace(c) == c \in {" ", "\n", "\t"}

RECURSIVE LStrip(_)
LStrip(s) ==
    IF Len(s) > 0 /\ IsSpace(SubSeq(s, 1, 1))
    THEN LStrip(SubSeq(s, 2, Len(s)))
    ELSE s

RECURSIVE RStrip(_)
RStrip(s) ==
    IF Len(s) > 0 /\ IsSpace(SubSeq(s, Len(s), Len(s)))
    THEN RStrip(SubSeq(s, 1, Len(s) - 1))
    ELSE s

\* str.strip()
Strip(s) == RStrip(LStrip(s))

\* s.split()[-1] for a string holding at least one non-blank character:
\* the last whitespace-delimited token.
LastToken(s) ==
    LET r == RStrip(s)
        starts == {k \in 1..Len(r) :
                      \A j \in k..Len(r) : ~IsSpace(SubSeq(r, j, j))}
    IN  SubSeq(r, CHOOSE k \in starts : \A m \in starts : k <= m, Len(r))

DigitChars == <<"0", "1", "2", "3", "4", "5", "6", "7", "8", "9">>

IsDigit(c) == \E d \in 1..Len(DigitChars) : DigitChars[d] = c

\* int(tok) succeeds.  (The tokens of the model hold letters and digits only;
\* Python also accepts a sign and underscores between digits.)
IsInt(tok) ==
    Len(tok) > 0 /\ \A k \in 1..Len(tok) : IsDigit(SubSeq(tok, k, k))

DigitValue(c) == (CHOOSE d \in 1..Len(DigitChars) : DigitChars[d] = c) - 1

RECURSIVE IntOf(_)
IntOf(tok) ==
    IF Len(tok) = 0 THEN 0
    ELSE 10 * IntOf(SubSeq(tok, 1, Len(tok) - 1))
             + DigitValue(SubSeq(tok, Len(tok), Len(tok)))

\* A paragraph of the document: paragraph.style.name and paragraph.text.
Para(style, text) == [style |-> style, text |-> text]

\* The result of a call: a returned value, or the exception it raised.
Returned(v) == [raised |-> "", value |-> v]
Raised(e)   == [raised |-> e, value |-> <<>>]

\* paragraphs[:n]
FirstN(ps, n) == SubSeq(ps, 1, IF Len(ps) < n THEN Len(ps) ELSE n)

\* The style test of _extract_title's first loop.
IsTitleStyle(p) == StartsWith(p.style, "Heading 1") \/ p.style = "Title"

HasText(p) == Strip(p.text) # ""

\* Index of the paragraph at which the first loop of _extract_title returns
\* (the first of ps with a title style), or 0.
FirstTitleStyled(ps) ==
    IF \E k \in 1..Len(ps) : IsTitleStyle(ps[k])
    THEN CHOOSE k \in 1..Len(ps) :
             IsTitleStyle(ps[k]) /\ \A j \in 1..(k - 1) : ~IsTitleStyle(ps[j])
    ELSE 0

\* Index of the paragraph at which the second loop of _extract_title returns
\* (the first of ps with text), or 0.
FirstWithText(ps) ==
    IF \E k \in 1..Len(ps) : HasText(ps[k])
    THEN CHOOSE k \in 1..Len(ps) :
             HasText(ps[k]) /\ \A j \in 1..(k - 1) : ~HasText(ps[j])
    ELSE 0

\* _extract_title
ExtractTitle(ps) ==
    IF Len(ps) = 0 THEN ""
    ELSE LET a == FirstTitleStyled(FirstN(ps, 3))
             b == FirstWithText(FirstN(ps, 5))
         IN  IF a # 0 THEN Strip(ps[a].text)
             ELSE IF b # 0 THEN Strip(ps[b].text)
             ELSE ""

IsHeading(p) == StartsWith(p.style, "Heading")

\* level = int(paragraph.style.name.split()[-1]), or ValueError
LevelOf(p) ==
    LET tok == LastToken(p.style)
    IN  IF IsInt(tok) THEN Returned(IntOf(tok)) ELSE Raised("ValueError")

\* _extract_headings, from paragraph k on, headings collected so far in acc.
RECURSIVE HeadingsLoop(_, _, _)
HeadingsLoop(ps, k, acc) ==
    IF k > Len(ps) THEN Returned(acc)
    ELSE IF IsHeading(ps[k])
         THEN LET level == LevelOf(ps[k])
              IN  IF level.raised # "" THEN Raised(level.raised)
                  ELSE HeadingsLoop(ps, k + 1,
                           Append(acc, [level |-> level.value,
                                        text |-> Strip(ps[k].text)]))
         ELSE HeadingsLoop(ps, k + 1, acc)

ExtractHeadings(ps) == HeadingsLoop(ps, 1, <<>>)

\* _extract_paragraphs
RECURSIVE ParagraphsLoop(_, _, _)
ParagraphsLoop(ps, k, acc) ==
    IF k > Len(ps) THEN acc
    ELSE IF ~IsHeading(ps[k]) /\ HasText(ps[k])
         THEN ParagraphsLoop(ps, k + 1, Append(acc, Strip(ps[k].text)))
         ELSE ParagraphsLoop(ps, k + 1, acc)

ExtractParagraphs(ps) == ParagraphsLoop(ps, 1, <<>>)

\* sections with the open section (if any) appended.
Flush(sections, current_section, current_content) ==
    IF current_section # <<>>
    THEN Append(sections, [heading |-> current_section[1],
                           content |-> current_content])
    ELSE sections

\* _extract_sections, from paragraph k on.  current_section is <<>> (None) or
\* <<dict>>; a dict with two keys is always truthy.
RECURSIVE SectionsLoop(_, _, _, _, _)
SectionsLoop(ps, k, sections, current_section, current_content) ==
    IF k > Len(ps) THEN Returned(Flush(sections, current_section, current_content))
    ELSE IF IsHeading(ps[k])
         THEN LET level == LevelOf(ps[k])
              IN  IF level.raised # "" THEN Raised(level.raised)
                  ELSE SectionsLoop(ps, k + 1,
                           Flush(sections, current_section, current_content),
                           <<[level |-> level.value, text |-> Strip(ps[k].text)]>>,
                           <<>>)
         ELSE IF HasText(ps[k]) /\ current_section # <<>>
              THEN SectionsLoop(ps, k + 1, sections, current_section,
                       Append(current_content, Strip(ps[k].text)))
              ELSE SectionsLoop(ps, k + 1, sections, current_section,
                       current_content)

ExtractSections(ps) == SectionsLoop(ps, 1, <<>>, <<>>, <<>>)

EmptyContent ==
    [title |-> <<>>, headings |-> <<>>, paragraphs |-> <<>>, sections |-> <<>>]

Doc_Init ==
    /\ content = EmptyContent
    /\ doc_pc = "title"
    /\ doc_error = ""

\* docx.Document(self.file_path): a file that is no Word document makes
\* extract_content raise RuntimeError.
Doc_Open ==
    /\ pc = "generate"
    /\ doc_pc = "open"
    /\ IF env.input_is_docx
       THEN doc_pc' = "title" /\ doc_error' = doc_error
       ELSE doc_pc' = "failed" /\ doc_error' = "RuntimeError"
    /\ UNCHANGED <<paragraphs, content, tm_vars, cr_vars, fs_vars>>

\* "title": self._extract_title()
Doc_Title ==
    /\ doc_pc = "title"
    /\ content' = [content EXCEPT !.title = <<ExtractTitle(paragraphs)>>]
    /\ doc_pc' = "headings"
    /\ UNCHANGED <<paragraphs, doc_error, tm_vars, cr_vars, fs_vars>>

\* "headings": self._extract_headings(); its exception is not caught.
Doc_Headings ==
    /\ doc_pc = "headings"
    /\ LET r == ExtractHeadings(paragraphs)
       IN  IF r.raised # ""
           THEN /\ doc_error' = r.raised
                /\ doc_pc' = "failed"
                /\ content' = content
           ELSE /\ content' = [content EXCEPT !.headings = <<r.value>>]
                /\ doc_pc' = "paragraphs"
                /\ doc_error' = doc_error
    /\ UNCHANGED <<paragraphs, tm_vars, cr_vars, fs_vars>>

\* "paragraphs": self._extract_paragraphs()
Doc_Paragraphs ==
    /\ doc_pc = "paragraphs"
    /\ content' = [content EXCEPT !.paragraphs = <<ExtractParagraphs(paragraphs)>>]
    /\ doc_pc' = "sections"
    /\ UNCHANGED <<paragraphs, doc_error, tm_vars, cr_vars, fs_vars>>

\* "sections": self._extract_sections(), then return content.
Doc_Sections ==
    /\ doc_pc = "sections"
    /\ LET r == ExtractSections(paragraphs)
       IN  IF r.raised # ""
           THEN /\ doc_error' = r.raised
                /\ doc_pc' = "failed"
                /\ content' = content
           ELSE /\ content' = [content EXCEPT !.sections = <<r.value>>]
                /\ doc_pc' = "done"
                /\ doc_error' = doc_error
    /\ UNCHANGED <<paragraphs, tm_vars, cr_vars, fs_vars>>

(***************************************************************************)
(* utils.format_slide_notes                                                *)
(***************************************************************************)
\* s.split("\n")
RECURSIVE SplitLines(_)
SplitLines(s) ==
    IF \E k \in 1..Len(s) : SubSeq(s, k, k) = "\n"
    THEN LET k == CHOOSE k \in 1..Len(s) :
                      /\ SubSeq(s, k, k) = "\n"
                      /\ \A j \in 1..(k - 1) : SubSeq(s, j, j) # "\n"
         IN  <<SubSeq(s, 1, k - 1)>> \o SplitLines(SubSeq(s, k + 1, Len(s)))
    ELSE <<s>>

\* "\n".join(lines)
RECURSIVE JoinLines(_)
JoinLines(lines) ==
    IF Len(lines) = 0 THEN ""
    ELSE IF Len(lines) = 1 THEN lines[1]
    ELSE lines[1] \o "\n" \o JoinLines(Tail(lines))

\* The stripped lines that are not empty, in order.
RECURSIVE StrippedNonEmpty(_)
StrippedNonEmpty(lines) ==
    IF Len(lines) = 0 THEN <<>>
    ELSE (IF Strip(lines[1]) # "" THEN <<Strip(lines[1])>> ELSE <<>>)
             \o StrippedNonEmpty(Tail(lines))

FormatSlideNotes(notes) ==
    IF notes = "" THEN ""
    ELSE JoinLines(StrippedNonEmpty(SplitLines(notes)))

(***************************************************************************)
(* The generator's output (AIGenerator.generate_presentation)              *)
(***************************************************************************)
\* One entry of "slides".  A key that is missing is <<>>.  bullets_type is
\* the Python type of the value under "bullets" when the key is there: the
\* entries made here hold a list of strings.
Entry(slide_type, title, subtitle, bullets, notes) ==
    [is_dict |-> TRUE, slide_type |-> slide_type, title |-> title,
     subtitle |-> subtitle, bullets |-> bullets, bullets_type |-> "list",
     notes |-> notes]

E_Title   == Entry(<<"title">>, <<"Deck">>, <<"By us">>, <<>>, <<>>)
E_Section == Entry(<<"section">>, <<"Part">>, <<"">>, <<>>, <<"  \n ">>)
E_Content == Entry(<<"content">>, <<"Slide">>, <<>>, <<<<"A", "B", "C">>>>,
                   <<" first \n\n second ">>)
E_Picture == Entry(<<"picture">>, <<"Pic">>, <<"Cap">>, <<<<"P">>>>, <<>>)
E_NoType  == Entry(<<>>, <<"Any">>, <<>>, <<<<"X", "Y">>>>, <<"">>)
E_Bare    == Entry(<<"content">>, <<>>, <<>>, <<<<>>>>, <<>>)
\* An entry that is not a JSON object (a string, a number, null).
E_NotDict ==
    [is_dict |-> FALSE, slide_type |-> <<>>, title |-> <<>>, subtitle |-> <<>>,
     bullets |-> <<>>, bullets_type |-> "list", notes |-> <<>>]
\* A content entry without the "bullets" key.
E_NoBullets == Entry(<<"content">>, <<"Plain">>, <<>>, <<>>, <<>>)
\* "bullets": "ab", a JSON string in place of the list.
E_StrBullets ==
    [Entry(<<"content">>, <<"Text">>, <<>>, <<"ab">>, <<>>)
        EXCEPT !.bullets_type = "str"]
\* "bullets": 5, a JSON number in place of the list.
E_IntBullets ==
    [Entry(<<"content">>, <<"Count">>, <<>>, <<5>>, <<>>)
        EXCEPT !.bullets_type = "int"]

Entries ==
    {E_Title, E_Section, E_Content, E_Picture, E_NoType, E_Bare, E_NotDict}

\* Longest "slides" list of a generated outline.
MaxSlides == 2

\* The value json.loads returns: a JSON object (is_dict), whose "slides" key is
\* missing (<<>>) or holds a list (is_list) or something else (a number, null).
RawOutlines ==
    {[is_dict |-> FALSE, slides |-> <<>>],
     [is_dict |-> TRUE, slides |-> <<>>],
     [is_dict |-> TRUE, slides |-> <<[is_list |-> FALSE, items |-> <<>>]>>]}
    \cup {[is_dict |-> TRUE, slides |-> <<[is_list |-> TRUE, items |-> xs]>>] :
             xs \in SeqsUpTo(Entries, MaxSlides)}

(***************************************************************************)
(* PPTXCreator                                                             *)
(***************************************************************************)
\* A paragraph of a text frame.
Paragraph(text, level) == [text |-> text, level |-> level]

\* A placeholder shape of a slide made from a layout placeholder; its text
\* frame starts with one empty paragraph.
ShapeOf(ph) ==
    [ph_type |-> ph.type, idx |-> ph.idx, name |-> ph.name,
     paragraphs |-> <<Paragraph("", 0)>>]

\* slides.add_slide(layout): the slide holds one placeholder per placeholder
\* of the layout, and has no notes slide yet.  `index` is the layout's index,
\* `entry` the position in slides_data of the entry the slide is made for.
NewSlide(layouts, index, entry) ==
    [layout |-> index,
     shapes |-> [k \in 1..Len(layouts[index + 1].placeholders) |->
                    ShapeOf(layouts[index + 1].placeholders[k])],
     notes  |-> <<>>,
     entry  |-> entry]

\* Faulty variant of AddSlide: the new slide is put before the others.
AddSlideInFront(slides, slide) == <<slide>> \o slides

\* The slide collection after add_slide: the new slide is the last one.
AddSlide(slides, slide) == Append(slides, slide)

\* slide_data.get("slide_type", "content")
SlideTypeOf(slide_data) ==
    IF slide_data.slide_type = <<>> THEN "content" ELSE slide_data.slide_type[1]

\* Faulty variant of SelectLayout: a slide type that is none of the three is laid out
\* as a title slide.
SelectLayoutUnknownAsTitle(slide_type, sl, layouts) ==
    IF slide_type # "section"
    THEN IF Len(layouts) > 0 THEN Returned(0) ELSE Raised("IndexError")
    ELSE IF sl["section"] # <<>> THEN Returned(sl["section"][1].index)
    ELSE IF Len(layouts) > 0 THEN Returned(0) ELSE Raised("IndexError")

\* The layout index create_presentation selects for a slide type, or the
\* IndexError of slide_layouts[k] on a template without layout k.
SelectLayout(slide_type, sl, layouts) ==
    IF slide_type = "title"
    THEN IF Len(layouts) > 0 THEN Returned(0) ELSE Raised("IndexError")
    ELSE IF slide_type = "section"
    THEN IF sl["section"] # <<>> THEN Returned(sl["section"][1].index)
         ELSE IF Len(layouts) > 0 THEN Returned(0) ELSE Raised("IndexError")
    ELSE IF sl["content"] # <<>> THEN Returned(sl["content"][1].index)
         ELSE IF Len(layouts) > 1 THEN Returned(1)
         ELSE IF Len(layouts) > 0 THEN Returned(0) ELSE Raised("IndexError")

\* Faulty variant of LastOfTypes: the first shape of the types is kept.
FirstOfTypes(shapes, types) ==
    IF \E k \in 1..Len(shapes) : shapes[k].ph_type \in types
    THEN CHOOSE k \in 1..Len(shapes) :
             /\ shapes[k].ph_type \in types
             /\ \A j \in 1..(k - 1) : shapes[j].ph_type \notin types
    ELSE 0

\* The shape the loop `for shape in slide.shapes` leaves in a variable that
\* is assigned at every shape whose type is in `types`: the last one, or 0.
LastOfTypes(shapes, types) ==
    IF \E k \in 1..Len(shapes) : shapes[k].ph_type \in types
    THEN CHOOSE k \in 1..Len(shapes) :
             /\ shapes[k].ph_type \in types
             /\ \A j \in (k + 1)..Len(shapes) : shapes[j].ph_type \notin types
    ELSE 0

\* placeholder.text = text (the model's titles hold no line break).
SetText(slide, k, text) ==
    [slide EXCEPT !.shapes[k].paragraphs = <<Paragraph(text, 0)>>]

\* if title_placeholder and "title" in slide_data
SetTitle(slide, slide_data) ==
    LET k == LastOfTypes(slide.shapes, {1})
    IN  IF k # 0 /\ slide_data.title # <<>>
        THEN SetText(slide, k, slide_data.title[1])
        ELSE slide

\* if subtitle_placeholder and "subtitle" in slide_data and slide_data["subtitle"]
SetSubtitle(slide, slide_data) ==
    LET k == LastOfTypes(slide.shapes, {2})
    IN  IF k # 0 /\ slide_data.subtitle # <<>> /\ slide_data.subtitle[1] # ""
        THEN SetText(slide, k, slide_data.subtitle[1])
        ELSE slide

\* The characters of a string, as iterating a Python str yields them.
Chars(s) == [i \in 1..Len(s) |-> SubSeq(s, i, i)]

\* "bullets" in slide_data and slide_data["bullets"]: the key is there and
\* its value is truthy (a list or a str that is not empty, a number that is
\* not 0).
BulletsTruthy(slide_data) ==
    /\ slide_data.bullets # <<>>
    /\ IF slide_data.bullets_type = "int" THEN slide_data.bullets[1] # 0
       ELSE Len(slide_data.bullets[1]) > 0

\* The values `for i, bullet in enumerate(slide_data["bullets"])` visits: the
\* items of a list, the characters of a str.
BulletItems(slide_data) ==
    IF slide_data.bullets_type = "str" THEN Chars(slide_data.bullets[1])
    ELSE slide_data.bullets[1]

\* Faulty variant of BulletParagraphs: every bullet, the first one too, goes
\* to a paragraph added after the one text_frame.clear() leaves.
BulletParagraphsAllAdded(bullets) ==
    <<Paragraph("", 0)>> \o [i \in 1..Len(bullets) |-> Paragraph(bullets[i], 0)]

\* text_frame.clear(), then one paragraph per bullet, the first bullet in
\* paragraphs[0].
BulletParagraphs(bullets) ==
    [i \in 1..Len(bullets) |-> Paragraph(bullets[i], 0)]

\* enumerate(slide_data["bullets"]) is reached with a number: TypeError.
BulletsRaise(slide, slide_data) ==
    /\ LastOfTypes(slide.shapes, {2, 3, 7, 8, 18}) # 0
    /\ BulletsTruthy(slide_data)
    /\ slide_data.bullets_type = "int"

\* if content_placeholder and "bullets" in slide_data and slide_data["bullets"]
SetBullets(slide, slide_data) ==
    LET k == LastOfTypes(slide.shapes, {2, 3, 7, 8, 18})
    IN  IF k # 0 /\ BulletsTruthy(slide_data)
        THEN [slide EXCEPT !.shapes[k].paragraphs =
                               BulletParagraphs(BulletItems(slide_data))]
        ELSE slide

\* if "notes" in slide_data and slide_data["notes"]: reading
\* slide.notes_slide creates the notes slide, whose frame then gets the
\* formatted text, the empty text too.
SetNotes(slide, slide_data) ==
    IF slide_data.notes # <<>> /\ slide_data.notes[1] # ""
    THEN [slide EXCEPT !.notes = <<FormatSlideNotes(slide_data.notes[1])>>]
    ELSE slide

CreateTitleSlide(slide, slide_data) ==
    SetNotes(SetSubtitle(SetTitle(slide, slide_data), slide_data), slide_data)

CreateSectionSlide(slide, slide_data) ==
    SetNotes(SetTitle(slide, slide_data), slide_data)

CreateContentSlide(slide, slide_data) ==
    SetNotes(SetBullets(SetTitle(slide, slide_data), slide_data), slide_data)

\* Faulty variant of PopulateSlide: a missing title placeholder is an error.
PopulateSlideStrict(slide_type, slide, slide_data) ==
    IF LastOfTypes(slide.shapes, {1}) = 0 /\ slide_data.title # <<>>
    THEN Raised("PlaceholderNotFoundError")
    ELSE IF slide_type = "title"
    THEN Returned(CreateTitleSlide(slide, slide_data))
    ELSE IF slide_type = "section"
    THEN Returned(CreateSectionSlide(slide, slide_data))
    ELSE IF BulletsRaise(slide, slide_data) THEN Raised("TypeError")
    ELSE Returned(CreateContentSlide(slide, slide_data))

\* The dispatch after add_slide.  Of the three methods only
\* _create_content_slide raises on the values of the model, on a "bullets"
\* value that cannot be iterated.
PopulateSlide(slide_type, slide, slide_data) ==
    IF slide_type = "title"
    THEN Returned(CreateTitleSlide(slide, slide_data))
    ELSE IF slide_type = "section"
    THEN Returned(CreateSectionSlide(slide, slide_data))
    ELSE IF BulletsRaise(slide, slide_data) THEN Raised("TypeError")
    ELSE Returned(CreateContentSlide(slide, slide_data))

\* A deck file: its layouts and its slides.
Deck(layouts, slides) ==
    [is_pptx |-> TRUE, layouts |-> layouts, slides |-> slides]

\* A file that python-pptx cannot open as a presentation.
NotADeck == [is_pptx |-> FALSE, layouts |-> <<>>, slides |-> <<>>]

\* Faulty variant of CopyTemplate: the copy is made without the same-file
\* test.
CopyTemplateUnchecked(src, same) == Returned(src)

\* shutil.copy2(self.template_path, self.output_path): the content the output
\* path gets, or SameFileError when both paths name one file.
CopyTemplate(src, same) ==
    IF same THEN Raised("SameFileError") ELSE Returned(src)

\* A write to the output path: when that path names the template file, it is
\* the template file that is written.
WriteOutput(data) ==
    /\ output_file' = data
    /\ template_file' = IF same_path THEN data ELSE template_file

Cr_Init ==
    /\ presentation_structure = <<>>
    /\ presentation = <<>>
    /\ output_file = <<>>
    /\ slide_pos = 0
    /\ error = ""

\* convert(): the checks of the input file, the template file, the output
\* path and the API key, in this order; each failure is `raise typer.Exit(1)`.
Validate ==
    /\ pc = "validate"
    /\ IF \/ ~env.input_exists
          \/ template_file = <<>>
          \/ ~env.output_dir_writable
          \/ ~env.api_key
       THEN pc' = "failed" /\ error' = "Exit"
       ELSE pc' = "generate" /\ error' = error
    /\ UNCHANGED <<tm_vars, doc_vars, presentation_structure, presentation,
                   output_file, slide_pos, fs_vars>>

\* convert(): generate_presentation_content.  The call raises (no answer,
\* empty answer, invalid JSON) or returns the parsed JSON value.
Generate ==
    /\ pc = "generate"
    /\ doc_pc = "done"
    /\ \/ /\ pc' = "failed"
          /\ error' = "ValueError"
          /\ UNCHANGED presentation_structure
       \/ /\ \E raw \in RawOutlines : presentation_structure' = <<raw>>
          /\ pc' = "create"
          /\ UNCHANGED error
    /\ UNCHANGED <<tm_vars, doc_vars, presentation, output_file, slide_pos,
                   fs_vars>>

\* slides_data of create_presentation.
SlidesData ==
    IF presentation_structure[1].slides = <<>> THEN <<>>
    ELSE presentation_structure[1].slides[1].items

\* create_presentation up to the first iteration of the slide loop: copy the
\* template to the output path, open the copy, read "slides".
Cr_Open ==
    /\ pc = "create"
    /\ tm_pc = "done"
    /\ LET copy == CopyTemplate(template_file, same_path)
       IN  IF copy.raised # ""
           THEN /\ pc' = "failed"
                /\ error' = copy.raised
                /\ UNCHANGED <<output_file, template_file>>
           ELSE /\ WriteOutput(copy.value)
                /\ IF ~presentation_structure[1].is_dict
                   THEN pc' = "failed" /\ error' = "AttributeError"
                   ELSE IF /\ presentation_structure[1].slides # <<>>
                           /\ ~presentation_structure[1].slides[1].is_list
                   THEN pc' = "failed" /\ error' = "TypeError"
                   ELSE pc' = "slides" /\ error' = error
    /\ presentation' = <<>>
    /\ UNCHANGED <<tm_vars, doc_vars, presentation_structure, slide_pos,
                   same_path, env>>

\* One iteration of `for slide_data in slides_data`.
Cr_Slide ==
    /\ pc = "slides"
    /\ slide_pos < Len(SlidesData)
    /\ LET slide_data == SlidesData[slide_pos + 1]
       IN  IF ~slide_data.is_dict
           THEN /\ pc' = "failed"
                /\ error' = "AttributeError"
                /\ UNCHANGED <<presentation, slide_pos>>
           ELSE LET slide_type == SlideTypeOf(slide_data)
                    index == SelectLayout(slide_type, slide_layouts,
                                          template_layouts)
                IN  IF index.raised # ""
                    THEN /\ pc' = "failed"
                         /\ error' = index.raised
                         /\ UNCHANGED <<presentation, slide_pos>>
                    ELSE LET slide == PopulateSlide(slide_type,
                                          NewSlide(template_layouts, index.value,
                                                   slide_pos),
                                          slide_data)
                         IN  IF slide.raised # ""
                             THEN /\ pc' = "failed"
                                  /\ error' = slide.raised
                                  /\ presentation' = presentation
                                  /\ slide_pos' = slide_pos
                             ELSE /\ presentation' =
                                         AddSlide(presentation, slide.value)
                                  /\ slide_pos' = slide_pos + 1
                                  /\ UNCHANGED <<pc, error>>
    /\ UNCHANGED <<tm_vars, doc_vars, presentation_structure, output_file,
                   fs_vars>>

\* self.presentation.save(self.output_path), and convert() returns.
Cr_Save ==
    /\ pc = "slides"
    /\ slide_pos = Len(SlidesData)
    /\ WriteOutput(<<Deck(template_layouts, presentation)>>)
    /\ pc' = "done"
    /\ UNCHANGED <<tm_vars, doc_vars, presentation_structure, presentation,
                   slide_pos, error, same_path, env>>

\* convert() ended through `raise typer.Exit(1)`.
RunFailed == pc = "failed" \/ doc_pc = "failed"

\* convert() returned normally.
RunSucceeded == pc = "done"

(***************************************************************************)
(* Specifications                                                          *)
(***************************************************************************)
\* Longest document explored with every paragraph kind.
MaxShortDoc == 3
\* Longest document explored with the paragraph kinds of the title search.
MaxLongDoc == 6

RichParas ==
    {Para("Heading 1", " Intro "), Para("Heading 2", "Background"),
     Para("Heading 1", ""), Para("Heading", "Loose"),
     Para("Heading 10", "Deep"), Para("Title", "Report "),
     Para("Normal", " body\t"), Para("Normal", " \n"), Para("List", "item")}

PlainParas ==
    {Para("Normal", ""), Para("Normal", " a "), Para("Heading 1", "H"),
     Para("Title", "T"), Para("Heading 2", "S")}

Documents ==
    SeqsUpTo(RichParas, MaxShortDoc) \cup SeqsUpTo(PlainParas, MaxLongDoc)

\* An environment in which every check of convert() passes and the input
\* opens as a Word document.
GoodEnv ==
    [input_exists |-> TRUE, input_is_docx |-> TRUE,
     output_dir_writable |-> TRUE, api_key |-> TRUE]

\* extract_content run on every document of Documents.
DocSpecInit ==
    /\ paragraphs \in Documents
    /\ Doc_Init
    /\ template_layouts = <<>>
    /\ TM_Init
    /\ pc = "generate"
    /\ Cr_Init
    /\ template_file = <<Deck(template_layouts, <<>>)>>
    /\ same_path = FALSE
    /\ env = GoodEnv

DocNext == Doc_Title \/ Doc_Headings \/ Doc_Paragraphs \/ Doc_Sections

SpecDoc == DocSpecInit /\ [][DocNext]_vars

\* analyze_template run on every template of ResolveTemplates.
ResolveInit ==
    /\ template_layouts \in ResolveTemplates
    /\ TM_Init
    /\ paragraphs = <<>>
    /\ content = EmptyContent
    /\ doc_pc = "done"
    /\ doc_error = ""
    /\ pc = "create"
    /\ Cr_Init
    /\ template_file = <<Deck(template_layouts, <<>>)>>
    /\ same_path = FALSE
    /\ env = GoodEnv

ResolveNext == TM_Scan \/ TM_Fallbacks

SpecResolve == ResolveInit /\ [][ResolveNext]_vars

\* Longest template of a run of convert().
MaxTemplateLayouts == 2

\* Layouts of the templates of a run of convert(); layouts with several
\* placeholders of one kind are explored under SpecPopulate.
RunLayouts ==
    {L_TitleSlide, L_TitleAndContent, L_SectionHeader, L_Blank}

RunTemplates == SeqsUpTo(RunLayouts, MaxTemplateLayouts)

RunDocuments ==
    {<<Para("Heading 1", "Intro"), Para("Normal", " text ")>>,
     <<Para("Normal", "lead"), Para("Heading", "Loose")>>}

\* The environments of a run: the input file may be missing or be no Word
\* document, the output directory may refuse writes, the API key may be unset.
Envs ==
    {e \in [input_exists : BOOLEAN, input_is_docx : BOOLEAN,
            output_dir_writable : BOOLEAN, api_key : BOOLEAN] :
        e.input_is_docx => e.input_exists}

\* convert(): the checks, extract_content, the generator, analyze_template,
\* create_presentation.  The template file is missing, is no presentation, or
\* holds the layouts of template_layouts; the output path holds no file
\* unless it names the template file.
Init ==
    /\ env \in Envs
    /\ paragraphs \in (IF env.input_is_docx THEN RunDocuments ELSE {<<>>})
    /\ content = EmptyContent
    /\ doc_pc = "open"
    /\ doc_error = ""
    /\ template_layouts \in RunTemplates
    /\ template_file \in
           {<<Deck(template_layouts, <<>>)>>}
               \cup (IF template_layouts = <<>> THEN {<<>>, <<NotADeck>>}
                     ELSE {})
    /\ same_path \in BOOLEAN
    /\ output_file = (IF same_path THEN template_file ELSE <<>>)
    /\ slide_layouts = EmptyLayoutMap
    /\ layout_idx = 0
    /\ tm_pc = "open"
    /\ pc = "validate"
    /\ presentation_structure = <<>>
    /\ presentation = <<>>
    /\ slide_pos = 0
    /\ error = ""

Next ==
    \/ Validate
    \/ Doc_Open
    \/ Doc_Title \/ Doc_Headings \/ Doc_Paragraphs \/ Doc_Sections
    \/ Generate
    \/ TM_Open \/ TM_Scan \/ TM_Fallbacks
    \/ Cr_Open \/ Cr_Slide \/ Cr_Save

Spec == Init /\ [][Next]_vars

\* Longest template, and longest outline, of the runs of create_presentation
\* explored for the population of slides.
MaxPopulateLayouts == 2
MaxPopulateSlides == 2

\* A layout with two title placeholders and two content placeholders of
\* different kinds.
L_TwoTitles ==
    [name |-> "Comparison",
     placeholders |-> <<Ph(0, 1, "Title 1"), Ph(1, 1, "Title 2"),
                        Ph(2, 2, "Text Placeholder 3"),
                        Ph(3, 7, "Content Placeholder 4")>>]

PopulateLayouts ==
    {L_TitleAndContent, L_TwoContent, L_Picture, L_TwoTitles, L_Blank}

PopulateTemplates == SeqsUpTo(PopulateLayouts, MaxPopulateLayouts)

PopulateEntries ==
    {E_Title, E_Content, E_Section, E_NoType, E_NoBullets, E_StrBullets,
     E_IntBullets}

PopulateOutlines ==
    {[is_dict |-> TRUE, slides |-> <<[is_list |-> TRUE, items |-> xs]>>] :
        xs \in SeqsUpTo(PopulateEntries, MaxPopulateSlides)}

\* create_presentation of wordtoppt.py entered with an outline whose "slides"
\* is a list of mappings, and a template that is at another path than the
\* output.
PopulateInit ==
    /\ presentation_structure \in {<<raw>> : raw \in PopulateOutlines}
    /\ template_layouts \in PopulateTemplates
    /\ template_file = <<Deck(template_layouts, <<>>)>>
    /\ same_path = FALSE
    /\ env = GoodEnv
    /\ paragraphs = <<>>
    /\ content = EmptyContent
    /\ doc_pc = "done"
    /\ doc_error = ""
    /\ slide_layouts = EmptyLayoutMap
    /\ layout_idx = 0
    /\ tm_pc = "open"
    /\ pc = "create"
    /\ presentation = <<>>
    /\ output_file = <<>>
    /\ slide_pos = 0
    /\ error = ""

PopulateNext ==
    TM_Open \/ TM_Scan \/ TM_Fallbacks \/ Cr_Open \/ Cr_Slide \/ Cr_Save

SpecPopulate == PopulateInit /\ [][PopulateNext]_vars

(***************************************************************************)
(* Properties                                                              *)
(***************************************************************************)
\* Indices (0-based) of the scanned layouts whose name matches a layout type.
MatchingLayouts(t, n) ==
    {j \in 0..(n - 1) : MatchesType(t, template_layouts[j + 1].name)}

MinOf(S) == CHOOSE x \in S : \A y \in S : x <= y

\* C1: for a template with at least one layout, analyze_template returns a
\* map that binds title and content, and binds section whenever title is
\* bound; when no layout name matches content, content is bound to index 0
\* of a one-layout template and to index 1 otherwise.
C1_ResolveBindsTitleAndContent ==
    (tm_pc = "done" /\ Len(template_layouts) >= 1) =>
        /\ slide_layouts["title"] # <<>>
        /\ slide_layouts["content"] # <<>>
        /\ slide_layouts["section"] # <<>>
        /\ MatchingLayouts("content", Len(template_layouts)) = {} =>
               slide_layouts["content"][1].index =
                   (IF Len(template_layouts) = 1 THEN 0 ELSE 1)

HeadingPositions(ps) == {k \in 1..Len(ps) : IsHeading(ps[k])}

\* The position of the n-th heading paragraph.
NthHeading(ps, n) ==
    CHOOSE k \in HeadingPositions(ps) :
        Cardinality({j \in HeadingPositions(ps) : j < k}) = n - 1

\* The position after the last paragraph of the n-th heading's section.
SectionEnd(ps, n) ==
    IF n < Cardinality(HeadingPositions(ps))
    THEN NthHeading(ps, n + 1)
    ELSE Len(ps) + 1

\* Positions of the paragraphs that make up the content of the n-th section.
ContentPositions(ps, n) ==
    {k \in (NthHeading(ps, n) + 1)..(SectionEnd(ps, n) - 1) : HasText(ps[k])}

\* The sections are those of the claim: one per heading, in order, each with
\* the trimmed non-empty paragraphs up to the next heading.
SectionsAsClaimed(ps, sections) ==
    /\ Len(sections) = Cardinality(HeadingPositions(ps))
    /\ \A n \in 1..Len(sections) :
           /\ sections[n].heading.text = Strip(ps[NthHeading(ps, n)].text)
           /\ Len(sections[n].content) = Cardinality(ContentPositions(ps, n))
           /\ \A k \in ContentPositions(ps, n) :
                  sections[n].content[
                      Cardinality({j \in ContentPositions(ps, n) : j <= k})]
                      = Strip(ps[k].text)

DocFinished == doc_pc \in {"done", "failed"}

\* C3: for any paragraph sequence with N heading paragraphs, segmentation
\* yields N sections in source order, each holding the trimmed non-empty
\* non-heading paragraphs between its heading and the next; paragraphs before
\* the first heading are in no section.
C3_SegmentYieldsSections ==
    DocFinished =>
        /\ content.sections # <<>>
        /\ SectionsAsClaimed(paragraphs, content.sections[1])

\* A heading paragraph whose style name does not end in an integer token.
MalformedHeading(p) == IsHeading(p) /\ ~IsInt(LastToken(p.style))

\* For every document whose heading styles all end in an integer token,
\* extract_content returns and its sections are the ones described above.
SectionsWhenLevelsParse ==
    (DocFinished /\ \A k \in 1..Len(paragraphs) : ~MalformedHeading(paragraphs[k]))
        => /\ doc_pc = "done"
           /\ SectionsAsClaimed(paragraphs, content.sections[1])

\* C4: a heading whose style name does not end in an integer token does not
\* make extract_content fail; the heading starts a section of level 1.
C4_MalformedLevelDefaultsToOne ==
    (DocFinished /\ \E k \in 1..Len(paragraphs) : MalformedHeading(paragraphs[k]))
        => /\ doc_pc = "done"
           /\ content.sections # <<>>
           /\ Len(content.sections[1]) = Cardinality(HeadingPositions(paragraphs))
           /\ \A n \in 1..Len(content.sections[1]) :
                  MalformedHeading(paragraphs[NthHeading(paragraphs, n)])
                      => content.sections[1][n].heading.level = 1

\* The title when "top-level heading" is read as the style named "Heading 1".
TitleAsClaimed(ps) ==
    LET top(k) == ps[k].style = "Heading 1" \/ ps[k].style = "Title"
        n3 == IF Len(ps) < 3 THEN Len(ps) ELSE 3
        n5 == IF Len(ps) < 5 THEN Len(ps) ELSE 5
    IN  IF \E k \in 1..n3 : top(k)
        THEN Strip(ps[CHOOSE k \in 1..n3 :
                          top(k) /\ \A j \in 1..(k - 1) : ~top(j)].text)
        ELSE IF \E k \in 1..n5 : Strip(ps[k].text) # ""
        THEN Strip(ps[CHOOSE k \in 1..n5 :
                          /\ Strip(ps[k].text) # ""
                          /\ \A j \in 1..(k - 1) : Strip(ps[j].text) = ""].text)
        ELSE ""

\* C5: the title is the trimmed text of the first of the first 3 paragraphs
\* whose style is the top-level heading or "Title"; failing that, the first
\* non-empty trimmed text of the first 5 paragraphs; failing that, "".
C5_TitleExtraction ==
    content.title # <<>> => content.title[1] = TitleAsClaimed(paragraphs)

\* The entry of slides_data a slide was made for.
EntryOf(slide) == SlidesData[slide.entry + 1]

\* The run failed inside the slide loop of create_presentation.
FailedAtSlide ==
    /\ pc = "failed"
    /\ tm_pc = "done"
    /\ ~same_path
    /\ presentation_structure # <<>>
    /\ presentation_structure[1].is_dict
    /\ presentation_structure[1].slides # <<>> =>
           presentation_structure[1].slides[1].is_list

UnknownType(e) ==
    e.is_dict /\ SlideTypeOf(e) \notin {"title", "section"}
              /\ e.slide_type # <<"content">>

\* The text frame of a placeholder nothing was written to.
Untouched(shape) == shape.paragraphs = <<Paragraph("", 0)>>

ContentKinds == {2, 3, 7, 8, 18}

\* The layout a content slide is made on.
ContentLayoutIndex ==
    IF slide_layouts["content"] # <<>> THEN slide_layouts["content"][1].index
    ELSE IF Len(template_layouts) > 1 THEN 1 ELSE 0

\* C6: an entry whose slide_type is missing or is not title, section or
\* content does not make the run fail, and its slide is laid out and filled
\* as a content slide: content layout, title into the title placeholder,
\* bullets into the content placeholder, no subtitle.
C6_UnknownTypeIsContent ==
    /\ (FailedAtSlide /\ UnknownType(SlidesData[slide_pos + 1]))
           => Len(template_layouts) = 0
    /\ \A n \in 1..Len(presentation) :
           LET slide == presentation[n]
               e == EntryOf(slide)
               tk == LastOfTypes(slide.shapes, {1})
               ck == LastOfTypes(slide.shapes, ContentKinds)
           IN  UnknownType(e) =>
                   /\ slide.layout = ContentLayoutIndex
                   /\ (tk # 0 /\ e.title # <<>>) =>
                          slide.shapes[tk].paragraphs = <<Paragraph(e.title[1], 0)>>
                   /\ (ck # 0 /\ e.bullets # <<>> /\ e.bullets[1] # <<>>) =>
                          /\ Len(slide.shapes[ck].paragraphs) = Len(e.bullets[1])
                          /\ \A i \in 1..Len(e.bullets[1]) :
                                 slide.shapes[ck].paragraphs[i].text = e.bullets[1][i]
                   /\ \A k \in 1..Len(slide.shapes) :
                          k \notin {tk, ck} => Untouched(slide.shapes[k])

\* A run ended well with a slide made for an entry of type "picture" on a
\* layout other than layout 0, its bullets written.
C6_Witness ==
    /\ pc = "done"
    /\ \E n \in 1..Len(presentation) :
           /\ EntryOf(presentation[n]).slide_type = <<"picture">>
           /\ presentation[n].layout # 0
           /\ \E k \in 1..Len(presentation[n].shapes) :
                  presentation[n].shapes[k].paragraphs = <<Paragraph("P", 0)>>

\* The generator's output is not a JSON object with a "slides" list.
MalformedOutline ==
    /\ presentation_structure # <<>>
    /\ \/ ~presentation_structure[1].is_dict
       \/ presentation_structure[1].slides = <<>>
       \/ ~presentation_structure[1].slides[1].is_list

\* C7: when the generator's output is not a mapping, or has no slides
\* sequence, the run never completes successfully and never leaves a deck at
\* the output path.
C7_MalformedOutlineFails ==
    MalformedOutline => (pc # "done" /\ (~same_path => output_file = <<>>))

\* C8: one slide per outline entry, in outline order: the loop has appended
\* exactly the slides of the entries it has passed, the k-th slide made for
\* the k-th entry, and a successful run has passed every entry and saved
\* these slides.
C8_OneSlidePerEntryInOrder ==
    /\ Len(presentation) = slide_pos
    /\ \A n \in 1..Len(presentation) :
           /\ presentation[n].entry = n - 1
           /\ LET tk == LastOfTypes(presentation[n].shapes, {1})
                  e == SlidesData[n]
              IN  (tk # 0 /\ e.title # <<>>) =>
                      presentation[n].shapes[tk].paragraphs
                          = <<Paragraph(e.title[1], 0)>>
    /\ pc = "done" =>
           /\ Len(presentation) = Len(SlidesData)
           /\ output_file = <<Deck(template_layouts, presentation)>>

\* A run ended well on an outline that holds the same titled entry twice, and
\* the deck holds two slides, the second with a title placeholder.
C8_Witness ==
    /\ pc = "done"
    /\ Len(presentation) = 2
    /\ SlidesData[1] = SlidesData[2]
    /\ SlidesData[1].title # <<>>
    /\ LastOfTypes(presentation[2].shapes, {1}) # 0

\* The layout type whose binding a slide type is to use.
RoleOf(slide_type) ==
    IF slide_type \in {"title", "section"} THEN slide_type ELSE "content"

\* C9: every slide is made on the layout the layout map binds to its role:
\* title slides on the title binding (also when that is not index 0), content
\* slides on the content binding, section slides on the section binding.
C9_SlideUsesBoundLayout ==
    \A n \in 1..Len(presentation) :
        LET role == RoleOf(SlideTypeOf(EntryOf(presentation[n])))
        IN  slide_layouts[role] # <<>> =>
                presentation[n].layout = slide_layouts[role][1].index

\* C10: a missing placeholder is never an error.  The slide loop fails only
\* on an entry that is no mapping or on a template without layouts; on every
\* slide made, each text whose placeholder exists is written, whatever other
\* placeholders are missing, and the placeholders no text is aimed at are
\* left as they were.
C10_MissingPlaceholderIsSkipped ==
    /\ FailedAtSlide =>
           (~SlidesData[slide_pos + 1].is_dict \/ Len(template_layouts) = 0)
    /\ \A n \in 1..Len(presentation) :
           LET slide == presentation[n]
               e == EntryOf(slide)
               t == SlideTypeOf(e)
               tk == LastOfTypes(slide.shapes, {1})
               sk == IF t = "title" THEN LastOfTypes(slide.shapes, {2}) ELSE 0
               ck == IF t \in {"title", "section"} THEN 0
                     ELSE LastOfTypes(slide.shapes, ContentKinds)
           IN  /\ (tk # 0 /\ e.title # <<>>) =>
                      slide.shapes[tk].paragraphs = <<Paragraph(e.title[1], 0)>>
               /\ (sk # 0 /\ e.subtitle # <<>> /\ e.subtitle[1] # "") =>
                      slide.shapes[sk].paragraphs
                          = <<Paragraph(e.subtitle[1], 0)>>
               /\ (ck # 0 /\ e.bullets # <<>> /\ e.bullets[1] # <<>>) =>
                      /\ Len(slide.shapes[ck].paragraphs) = Len(e.bullets[1])
                      /\ \A i \in 1..Len(e.bullets[1]) :
                             slide.shapes[ck].paragraphs[i].text = e.bullets[1][i]
               /\ (e.notes # <<>> /\ e.notes[1] # "") => slide.notes # <<>>
               /\ \A k \in 1..Len(slide.shapes) :
                      k \notin {tk, sk, ck} => Untouched(slide.shapes[k])

\* A run ended well in which a slide made on a layout without placeholders,
\* for an entry with a title and bullets, is followed by a slide whose title
\* was written.
C10_Witness ==
    /\ pc = "done"
    /\ Len(presentation) = 2
    /\ presentation[1].shapes = <<>>
    /\ SlidesData[1].title # <<>>
    /\ SlidesData[1].bullets # <<>>
    /\ SlidesData[1].notes # <<>>
    /\ presentation[1].notes # <<>>
    /\ LET tk == LastOfTypes(presentation[2].shapes, {1})
       IN  /\ tk # 0
           /\ SlidesData[2].title # <<>>
           /\ presentation[2].shapes[tk].paragraphs
                  = <<Paragraph(SlidesData[2].title[1], 0)>>

\* Positions of the shapes of a slide whose placeholder kind is in `kinds`.
ShapesOfKinds(slide, kinds) ==
    {k \in 1..Len(slide.shapes) : slide.shapes[k].ph_type \in kinds}

\* The entry is populated as a content slide.
IsContentEntry(e) == SlideTypeOf(e) \notin {"title", "section"}

\* The entry holds a "bullets" list that is not empty.
HasBulletList(e) ==
    e.bullets # <<>> /\ e.bullets_type = "list" /\ Len(e.bullets[1]) > 0

\* C11: on a content slide that has a content placeholder, made for an entry
\* with a non-empty bullets list of length N, a content placeholder holds
\* exactly N paragraphs, the i-th with the text of the i-th bullet and level
\* 0, and nothing of what it held before (the empty first paragraph is
\* reused for the first bullet).
C11_BulletsReplacePlaceholderText ==
    \A n \in 1..Len(presentation) :
        LET slide == presentation[n]
            e == EntryOf(slide)
            K == ShapesOfKinds(slide, ContentKinds)
        IN  (IsContentEntry(e) /\ K # {} /\ HasBulletList(e)) =>
                \E k \in K :
                    /\ Len(slide.shapes[k].paragraphs) = Len(e.bullets[1])
                    /\ \A i \in 1..Len(e.bullets[1]) :
                           slide.shapes[k].paragraphs[i]
                               = [text |-> e.bullets[1][i], level |-> 0]

\* A run ended well whose first slide was made for the bullets A, B, C and
\* holds them as the three paragraphs of a kind-7 placeholder.
C11_Witness ==
    /\ pc = "done"
    /\ Len(presentation) >= 1
    /\ HasBulletList(SlidesData[1])
    /\ SlidesData[1].bullets[1] = <<"A", "B", "C">>
    /\ \E k \in ShapesOfKinds(presentation[1], {7}) :
           presentation[1].shapes[k].paragraphs
               = <<[text |-> "A", level |-> 0], [text |-> "B", level |-> 0],
                   [text |-> "C", level |-> 0]>>

\* The notes text as described: the lines of `notes`, each trimmed, the blank
\* ones left out, joined by line breaks.
NotesAsClaimed(notes) ==
    LET lines == SplitLines(notes)
        kept == {i \in 1..Len(lines) : Strip(lines[i]) # ""}
        nth(j) == CHOOSE i \in kept : Cardinality({h \in kept : h < i}) = j - 1
    IN  JoinLines([j \in 1..Cardinality(kept) |-> Strip(lines[nth(j)])])

\* The notes that are written are the formatted notes of the entry.
NotesWrittenAsFormatted ==
    \A n \in 1..Len(presentation) :
        presentation[n].notes # <<>> =>
            /\ EntryOf(presentation[n]).notes # <<>>
            /\ presentation[n].notes
                   = <<NotesAsClaimed(EntryOf(presentation[n]).notes[1])>>

\* C12: a slide whose entry has notes that are present, not empty and not
\* blank after formatting carries these notes formatted (lines trimmed, blank
\* lines removed, joined by line breaks); for every other entry no notes
\* frame is created on the slide.
C12_NotesFormattedOrAbsent ==
    \A n \in 1..Len(presentation) :
        LET slide == presentation[n]
            e == EntryOf(slide)
        IN  IF /\ e.notes # <<>>
               /\ e.notes[1] # ""
               /\ NotesAsClaimed(e.notes[1]) # ""
            THEN slide.notes = <<NotesAsClaimed(e.notes[1])>>
            ELSE slide.notes = <<>>

\* The file at the output path when the run starts.
OutputBefore == IF same_path THEN template_file ELSE <<>>

\* A run that has failed takes no further step.
StopsAtFailure == [][~RunFailed]_vars

\* C13: fail fast, persist last.  The output path is written only once the
\* slide loop has populated every entry of the outline, and a run that has
\* failed, at whatever stage, leaves at the output path what was there before
\* the run.
C13_FailFastPersistLast ==
    /\ output_file # OutputBefore =>
           (pc \in {"slides", "done"} /\ slide_pos = Len(SlidesData))
    /\ RunFailed => output_file = OutputBefore

\* C14: no step of a run changes the file at the template path, and every
\* step that writes the output path (the copy, the save) is taken with the
\* output path naming another file than the template; a run whose output
\* path is the template path ends without writing.
C14_TemplateNeverModified ==
    [][/\ template_file' = template_file
       /\ output_file' # output_file => ~same_path]_vars

\* A run whose output path is the template path got as far as the copy, with
\* an outline of at least one entry to build, and failed there with the
\* template as it was.
C14_Witness ==
    /\ same_path
    /\ pc = "failed"
    /\ error = "SameFileError"
    /\ Len(template_layouts) >= 1
    /\ Len(SlidesData) >= 1
    /\ template_file = <<Deck(template_layouts, <<>>)>>
    /\ output_file = template_file

\* The run failed in the slide loop at an entry that is a mapping, on a
\* template that has layouts.
FailedAtPopulation ==
    /\ FailedAtSlide
    /\ Len(template_layouts) > 0
    /\ SlidesData[slide_pos + 1].is_dict

\* The entry has no "bullets" key, or a value under it that is no list.
BulletsMissingOrNoSequence(e) ==
    e.bullets = <<>> \/ e.bullets_type # "list"

\* C15: an entry whose bullets are missing or are no sequence (a string, a
\* number) is handled as an entry with no bullets: the run does not fail at
\* it, and on the slide made for it every content placeholder is left
\* without paragraphs written.
C15_NonSequenceBulletsAreEmpty ==
    /\ FailedAtPopulation =>
           ~BulletsMissingOrNoSequence(SlidesData[slide_pos + 1])
    /\ \A n \in 1..Len(presentation) :
           LET slide == presentation[n]
               e == EntryOf(slide)
           IN  (IsContentEntry(e) /\ BulletsMissingOrNoSequence(e)) =>
                   \A k \in ShapesOfKinds(slide, ContentKinds) :
                       Untouched(slide.shapes[k])

\* Entries without a "bullets" key are populated without bullets and without
\* failure.
MissingBulletsAreEmpty ==
    /\ FailedAtPopulation => SlidesData[slide_pos + 1].bullets # <<>>
    /\ \A n \in 1..Len(presentation) :
           LET slide == presentation[n]
               e == EntryOf(slide)
           IN  (IsContentEntry(e) /\ e.bullets = <<>>) =>
                   \A k \in ShapesOfKinds(slide, ContentKinds) :
                       Untouched(slide.shapes[k])

MaxOf(S) == CHOOSE x \in S : \A y \in S : y <= x

\* C16: of the placeholders of one target class on a slide, the last in
\* shape order receives the text and the others stay as they were: the title
\* goes to the last kind-1 shape, and on content slides the bullets go to the
\* last shape of kind 2, 3, 7, 8 or 18.
C16_LastPlaceholderOfClassReceivesText ==
    \A n \in 1..Len(presentation) :
        LET slide == presentation[n]
            e == EntryOf(slide)
            T == ShapesOfKinds(slide, {1})
            K == IF IsContentEntry(e) THEN ShapesOfKinds(slide, ContentKinds)
                 ELSE {}
        IN  /\ (T # {} /\ e.title # <<>>) =>
                   /\ slide.shapes[MaxOf(T)].paragraphs
                          = <<[text |-> e.title[1], level |-> 0]>>
                   /\ \A k \in T \ {MaxOf(T)} : Untouched(slide.shapes[k])
            /\ (K # {} /\ HasBulletList(e)) =>
                   /\ slide.shapes[MaxOf(K)].paragraphs
                          = [i \in 1..Len(e.bullets[1]) |->
                                [text |-> e.bullets[1][i], level |-> 0]]
                   /\ \A k \in K \ {MaxOf(K)} : Untouched(slide.shapes[k])

\* A run ended well with a content slide that has two title placeholders and
\* two content placeholders, made for an entry with a title and bullets: the
\* second of each pair holds the text, the first holds none.
C16_Witness ==
    /\ pc = "done"
    /\ \E n \in 1..Len(presentation) :
           LET slide == presentation[n]
               e == EntryOf(slide)
               T == ShapesOfKinds(slide, {1})
               K == ShapesOfKinds(slide, ContentKinds)
           IN  /\ IsContentEntry(e)
               /\ e.title # <<>>
               /\ HasBulletList(e)
               /\ Cardinality(T) = 2
               /\ Cardinality(K) = 2
               /\ slide.shapes[MaxOf(T)].paragraphs[1].text = e.title[1]
               /\ slide.shapes[MaxOf(K)].paragraphs[1].text = e.bullets[1][1]
               /\ \A k \in (T \cup K) \ {MaxOf(T), MaxOf(K)} :
                      Untouched(slide.shapes[k])

====
